---- MODULE Spec2Model ----
(***************************************************************************)
(* Model of byte_chunk (src/src/lib.rs): the ByteChunks iterator, its      *)
(* greedy scan next_split_index, and the adapters byte_chunks and          *)
(* byte_chunks_safe_mut.  Sizes and the budget are usize values; the model *)
(* keeps a word (scaled down to the values 0 .. MaxWord) so that the       *)
(* addition `byte_count + size_of_next` behaves as the build makes it      *)
(* behave: a panic with overflow checks on (debug), a wrap without         *)
(* (release).                                                              *)
(***************************************************************************)
EXTENDS Integers, Sequences, FiniteSets, TLC

\* ---- bounds -------------------------------------------------------------
MaxWord == 3      \* usize::MAX of the scaled-down word (2 bits)
MaxLen == 3       \* longest container
MaxCalls == 5     \* next() calls followed on one iterator
TextMaxChars == 1 \* longest text element, in characters
TextMaxLen == 2   \* longest container of text elements
TextMaxWord == 31 \* usize::MAX of the word the text runs are made with

VARIABLES
    data,              \* the caller's container (Vec<T> / [T])
    overflow_checks,   \* build setting: TRUE = arithmetic overflow panics
    usize_max,         \* build setting: usize::MAX of the target
    v,                 \* ByteChunks.v, the remaining view
    chunk_byte_size,   \* ByteChunks.chunk_byte_size, the budget
    adapter,           \* which adapter built the live iterator
    ret,               \* outcome of the last next() call on the live iterator
    emitted,           \* chunks returned so far by the live iterator
    v_before,          \* the remaining view when the last next() call started
    src,               \* the container as it was handed to the adapter
    calls,             \* next() calls made on the live iterator
    prev               \* the previous iterator's run, kept when it is dropped

vars == <<data, overflow_checks, usize_max, v, chunk_byte_size, adapter, ret,
          emitted, v_before, src, calls, prev>>

\* ---- usize ---------------------------------------------------------------
Modulus == usize_max + 1
Word == 0 .. MaxWord

\* ---- elements ------------------------------------------------------------
\* An element of type T: its identity and the value its bytes_size() returns.
Element == [id : 1 .. MaxLen, sz : Word]

\* A text (String or &str) is the sequence of its characters' code points.
\* char::encode_utf8: the bytes one character takes in the string's buffer.
encode_utf8(c) ==
    IF c < 128 THEN <<c>>
    ELSE IF c < 2048 THEN <<192 + (c \div 64), 128 + (c % 64)>>
    ELSE IF c < 65536
    THEN <<224 + (c \div 4096), 128 + ((c \div 64) % 64), 128 + (c % 64)>>
    ELSE <<240 + (c \div 262144), 128 + ((c \div 4096) % 64),
           128 + ((c \div 64) % 64), 128 + (c % 64)>>

\* Bytes::from(String): the string's UTF-8 buffer
RECURSIVE into_bytes(_)
into_bytes(text) ==
    IF text = <<>> THEN <<>>
    ELSE encode_utf8(Head(text)) \o into_bytes(Tail(text))

\* impl SizeInBytes for String: self.to_owned().into(), bytes.len()
String_bytes_size_chars(text) == Len(text)
String_bytes_size(text) == Len(into_bytes(text))

\* impl SizeInBytes for &str: self.to_string().into(), bytes.len()
str_bytes_size(text) == Len(into_bytes(text))

\* SizeInBytes::bytes_size, by the element's type
bytes_size(d) ==
    IF "text" \in DOMAIN d
    THEN IF d.kind = "String" THEN String_bytes_size(d.text)
         ELSE str_bytes_size(d.text)
    ELSE d.sz

\* the characters the text elements are written with: U+0041 (1 byte),
\* U+00E9 (2 bytes), U+30E9 (3 bytes), U+1F600 (4 bytes)
Alphabet == {65, 233, 12521, 128512}

Texts == UNION {[1 .. n -> Alphabet] : n \in 0 .. TextMaxChars}

TextSeqs == UNION {[1 .. n -> Texts] : n \in 0 .. TextMaxLen}

\* the data of tests::special_chars_are_sized_with_string and
\* special_chars_are_sized_with_static_string
special_chars ==
    << <<12521, 12454>>, <<12488, 12399>>, <<38627, 12375>>,
       <<12356, 12391>>, <<12377, 65281>> >>

TextBudgets == {3, 6, 12}

TextContainer(kind, texts) ==
    [i \in 1 .. Len(texts) |-> [id |-> i, kind |-> kind, text |-> texts[i]]]

Container(sizes) == [i \in 1 .. Len(sizes) |-> [id |-> i, sz |-> sizes[i]]]

SizeSeqs == UNION {[1 .. n -> Word] : n \in 0 .. MaxLen}

\* ---- arithmetic of the scan ---------------------------------------------
\* usize addition without overflow checks
wrapping_add(a, b) == (a + b) % Modulus

add_overflows(a, b) == a + b > usize_max

\* line 46: the element alone is larger than the budget
TooLarge_or_equal(size_of_next, budget) == size_of_next >= budget
TooLarge(size_of_next, budget) == size_of_next > budget

\* line 48: the candidate does not fit after what was accepted
ExceedsBudget_early(total, budget) == total >= budget
ExceedsBudget(total, budget) == total > budget

\* ---- ByteChunks::next_split_index ---------------------------------------
\* The loop of lines 41-57 from (byte_count, index); `index` counts the
\* accepted elements, slice.get(index) is s[index + 1].
RECURSIVE scan_first_only(_, _, _, _, _)
scan_first_only(s, budget, checks, byte_count, index) ==
    IF index >= Len(s)
    THEN [panic |-> "no", index |-> index]
    ELSE LET size_of_next == bytes_size(s[index + 1]) IN
         IF byte_count = 0 /\ TooLarge(size_of_next, budget)
         THEN [panic |-> "too_large", index |-> index]
         ELSE IF checks /\ add_overflows(byte_count, size_of_next)
         THEN [panic |-> "overflow", index |-> index]
         ELSE IF ExceedsBudget(wrapping_add(byte_count, size_of_next), budget)
         THEN [panic |-> "no", index |-> index]
         ELSE scan_first_only(s, budget, checks,
                   wrapping_add(byte_count, size_of_next), index + 1)

RECURSIVE scan(_, _, _, _, _)
scan(s, budget, checks, byte_count, index) ==
    IF index >= Len(s)
    THEN [panic |-> "no", index |-> index]
    ELSE LET size_of_next == bytes_size(s[index + 1]) IN
         IF TooLarge(size_of_next, budget)
         THEN [panic |-> "too_large", index |-> index]
         ELSE IF checks /\ add_overflows(byte_count, size_of_next)
         THEN [panic |-> "overflow", index |-> index]
         ELSE IF ExceedsBudget(wrapping_add(byte_count, size_of_next), budget)
         THEN [panic |-> "no", index |-> index]
         ELSE scan(s, budget, checks,
                   wrapping_add(byte_count, size_of_next), index + 1)

next_split_index(s, budget, checks) == scan(s, budget, checks, 0, 0)

\* The values the loop computes at line 48, one record per evaluation: the
\* running total byte_count and the exact sum byte_count + size_of_next that
\* the usize addition is asked for.
RECURSIVE scan_sums(_, _, _, _, _)
scan_sums(s, budget, checks, byte_count, index) ==
    IF index >= Len(s)
    THEN {}
    ELSE LET size_of_next == bytes_size(s[index + 1]) IN
         IF TooLarge(size_of_next, budget)
         THEN {}
         ELSE {[byte_count |-> byte_count, sum |-> byte_count + size_of_next]}
              \cup
              IF checks /\ add_overflows(byte_count, size_of_next)
              THEN {}
              ELSE IF ExceedsBudget(wrapping_add(byte_count, size_of_next), budget)
              THEN {}
              ELSE scan_sums(s, budget, checks,
                       wrapping_add(byte_count, size_of_next), index + 1)

\* ---- slice::split_at -----------------------------------------------------
split_at_drop(s, mid) ==
    [fst |-> SubSeq(s, 1, mid), snd |-> SubSeq(s, mid + 2, Len(s))]
split_at_overlap(s, mid) ==
    [fst |-> SubSeq(s, 1, mid), snd |-> SubSeq(s, mid, Len(s))]
split_at(s, mid) ==
    [fst |-> SubSeq(s, 1, mid), snd |-> SubSeq(s, mid + 1, Len(s))]

\* ---- Iterator::next ------------------------------------------------------
\* The outcome of one next() call on remaining view s: what it returns (or
\* the panic it unwinds with), the chunk, and the new remaining view.
next_no_empty_check(s, budget, checks) ==
    LET r == next_split_index(s, budget, checks)
        p == split_at(s, r.index)
    IN  IF r.panic # "no"
        THEN [ret |-> r.panic, chunk |-> <<>>, v |-> s]
        ELSE [ret |-> "Some", chunk |-> p.fst, v |-> p.snd]

\* the exhaustion test off by one: a last single element is never returned
next_len_le_1(s, budget, checks) ==
    IF Len(s) <= 1
    THEN [ret |-> "None", chunk |-> <<>>, v |-> s]
    ELSE next_no_empty_check(s, budget, checks)

\* the view is narrowed to the scanned index before the panic unwinds
next_split_before_panic(s, budget, checks) ==
    IF s = <<>>
    THEN [ret |-> "None", chunk |-> <<>>, v |-> s]
    ELSE LET r == next_split_index(s, budget, checks)
             p == split_at(s, r.index)
         IN  IF r.panic # "no"
             THEN [ret |-> r.panic, chunk |-> <<>>, v |-> p.snd]
             ELSE [ret |-> "Some", chunk |-> p.fst, v |-> p.snd]

next(s, budget, checks) ==
    IF s = <<>>
    THEN [ret |-> "None", chunk |-> <<>>, v |-> s]
    ELSE LET r == next_split_index(s, budget, checks)
             p == split_at(s, r.index)
         IN  IF r.panic # "no"
             THEN [ret |-> r.panic, chunk |-> <<>>, v |-> s]
             ELSE [ret |-> "Some", chunk |-> p.fst, v |-> p.snd]

\* ---- Vec::retain(|x| x.bytes_size() <= chunk_byte_size) -----------------
RECURSIVE retain_strict(_, _)
retain_strict(s, budget) ==
    IF s = <<>> THEN <<>>
    ELSE IF bytes_size(Head(s)) < budget
         THEN <<Head(s)>> \o retain_strict(Tail(s), budget)
         ELSE retain_strict(Tail(s), budget)

\* removal while stepping the index: the element after a removed one is
\* never examined
RECURSIVE retain_skip(_, _)
retain_skip(s, budget) ==
    IF s = <<>> THEN <<>>
    ELSE IF bytes_size(Head(s)) <= budget
         THEN <<Head(s)>> \o retain_skip(Tail(s), budget)
         ELSE IF Len(s) = 1 THEN <<>>
              ELSE <<s[2]>> \o retain_skip(Tail(Tail(s)), budget)

RECURSIVE retain(_, _)
retain(s, budget) ==
    IF s = <<>> THEN <<>>
    ELSE IF bytes_size(Head(s)) <= budget
         THEN <<Head(s)>> \o retain(Tail(s), budget)
         ELSE retain(Tail(s), budget)

\* ---- state machine -------------------------------------------------------
NoRun == [adapter |-> "none", budget |-> 0, src |-> <<>>, data |-> <<>>,
          emitted |-> <<>>, ret |-> "start"]

Init ==
    /\ data \in {Container(sizes) : sizes \in SizeSeqs}
    /\ overflow_checks \in BOOLEAN
    /\ usize_max = MaxWord
    /\ v = <<>>
    /\ chunk_byte_size = 0
    /\ adapter = "none"
    /\ ret = "start"
    /\ emitted = <<>>
    /\ v_before = <<>>
    /\ src = data
    /\ calls = 0
    /\ prev = NoRun

\* ByteChunks::new(slice, size) over the container, replacing (dropping)
\* any iterator that was live.  Two successive applications of the adapters
\* are followed: the live iterator and the one before it.
new(slice, size, name) ==
    /\ prev.adapter = "none"
    /\ prev' = [adapter |-> adapter, budget |-> chunk_byte_size, src |-> src,
                data |-> data, emitted |-> emitted, ret |-> ret]
    /\ src' = data
    /\ data' = slice
    /\ v' = slice
    /\ chunk_byte_size' = size
    /\ adapter' = name
    /\ ret' = "start"
    /\ emitted' = <<>>
    /\ v_before' = <<>>
    /\ calls' = 0
    /\ UNCHANGED <<overflow_checks, usize_max>>

\* ByteChunked::byte_chunks
byte_chunks_filtering(size) == new(retain(data, size), size, "byte_chunks")
byte_chunks(size) == new(data, size, "byte_chunks")

\* SafeByteChunkedMut::byte_chunks_safe_mut
byte_chunks_safe_mut(size) == new(retain(data, size), size, "byte_chunks_safe_mut")

\* one next() call on the live iterator
Advance ==
    /\ adapter # "none"
    /\ calls < MaxCalls
    /\ LET r == next(v, chunk_byte_size, overflow_checks) IN
        /\ ret' = r.ret
        /\ v' = r.v
        /\ emitted' = IF r.ret = "Some" THEN Append(emitted, r.chunk) ELSE emitted
    /\ v_before' = v
    /\ calls' = calls + 1
    /\ UNCHANGED <<data, overflow_checks, usize_max, chunk_byte_size, adapter,
                   src, prev>>

Next ==
    \/ \E size \in Word : byte_chunks(size)
    \/ \E size \in Word : byte_chunks_safe_mut(size)
    \/ Advance

Spec == Init /\ [][Next]_vars

\* ---- runs over text elements -------------------------------------------
\* A Vec<String> or Vec<&str>, chunked once with one of the adapters.
Init_Text ==
    /\ data \in {TextContainer(kind, texts) :
                    kind \in {"String", "str"},
                    texts \in TextSeqs \cup {special_chars}}
    /\ overflow_checks \in BOOLEAN
    /\ usize_max = TextMaxWord
    /\ v = <<>>
    /\ chunk_byte_size = 0
    /\ adapter = "none"
    /\ ret = "start"
    /\ emitted = <<>>
    /\ v_before = <<>>
    /\ src = data
    /\ calls = 0
    /\ prev = NoRun

Next_Text ==
    \/ \E size \in TextBudgets : adapter = "none" /\ byte_chunks(size)
    \/ \E size \in TextBudgets : adapter = "none" /\ byte_chunks_safe_mut(size)
    \/ Advance

Spec_Text == Init_Text /\ [][Next_Text]_vars

\* ---- vocabulary of the properties ---------------------------------------
RECURSIVE Sum(_)
Sum(s) == IF s = <<>> THEN 0 ELSE bytes_size(Head(s)) + Sum(Tail(s))

RECURSIVE Concat(_)
Concat(ss) == IF ss = <<>> THEN <<>> ELSE Head(ss) \o Concat(Tail(ss))

Last(s) == s[Len(s)]

Elems(s) == {s[i] : i \in 1 .. Len(s)}

Oversized(s, budget) == {i \in 1 .. Len(s) : bytes_size(s[i]) > budget}

\* position of the first element larger than the budget, 0 when there is none
FirstOversized(s, budget) ==
    IF Oversized(s, budget) = {} THEN 0
    ELSE CHOOSE k \in Oversized(s, budget) : \A j \in Oversized(s, budget) : k <= j

IsPrefix(a, b) == Len(a) <= Len(b) /\ a = SubSeq(b, 1, Len(a))

Safe == adapter = "byte_chunks_safe_mut"
Plain == adapter = "byte_chunks"

\* ---- C1 -----------------------------------------------------------------
\* C1 (partition): when no element of the sequence given to byte_chunks is
\* larger than the budget and next() has returned None, the chunks returned,
\* concatenated in emission order, are the original sequence, and the
\* container still is that sequence.
C1_Partition ==
    (Plain /\ ret = "None" /\ Oversized(src, chunk_byte_size) = {})
        => (Concat(emitted) = src /\ data = src)

C1_Witness ==
    /\ Plain /\ ret = "None" /\ Oversized(src, chunk_byte_size) = {}
    /\ Len(src) = 3 /\ Len(emitted) >= 2

\* ---- C2 -----------------------------------------------------------------
\* C2 (budget): every chunk returned by next() has a sum of element sizes
\* less than or equal to the budget.
C2_Budget ==
    \A i \in 1 .. Len(emitted) : Sum(emitted[i]) <= chunk_byte_size

\* ---- C3 -----------------------------------------------------------------
\* C3 (greedy maximality): after a next() call that returned a chunk, either
\* the remaining view is empty or the chunk's sizes plus the size of the
\* first remaining element exceed the budget.
C3_GreedyMaximal ==
    ret = "Some" =>
        \/ v = <<>>
        \/ Sum(Last(emitted)) + bytes_size(v[1]) > chunk_byte_size

C3_Witness ==
    /\ ret = "Some" /\ v # <<>> /\ Len(Last(emitted)) >= 2
    /\ Sum(Last(emitted)) < chunk_byte_size

\* ---- C4 -----------------------------------------------------------------
\* C4 as claimed: a next() call raises the element-too-large fault only when
\* the first element of the remaining view at that call is larger than the
\* budget.
C4_FaultOnlyOnFirst ==
    ret = "too_large" =>
        (v_before # <<>> /\ bytes_size(v_before[1]) > chunk_byte_size)

\* C4 as amended: a next() call raises the element-too-large fault only when
\* the remaining view at that call holds an element larger than the budget,
\* and it raises it whenever the elements before the first such element fit
\* the budget together, also when some of them were already accepted into
\* the running total: that call returns no chunk and leaves the view as it
\* was.
C4_FaultWhereScanReaches ==
    calls >= 1 =>
        LET k == FirstOversized(v_before, chunk_byte_size) IN
        /\ ret = "too_large" => (k # 0 /\ v = v_before)
        /\ (k # 0 /\ Sum(SubSeq(v_before, 1, k - 1)) <= chunk_byte_size)
               => ret = "too_large"

C4_Witness ==
    /\ ret = "too_large" /\ v_before # <<>>
    /\ bytes_size(v_before[1]) <= chunk_byte_size
    /\ bytes_size(v_before[1]) > 0

\* ---- C5 -----------------------------------------------------------------
\* C5 (filtering adapter result): after byte_chunks_safe_mut the container
\* holds exactly the elements of the original container whose size is at
\* most the budget, in their original relative order, and the new iterator's
\* remaining view is the whole filtered container.
C5_Filtered ==
    Safe =>
        /\ \A e \in Elems(data) : bytes_size(e) <= chunk_byte_size
        /\ Elems(data) = {e \in Elems(src) : bytes_size(e) <= chunk_byte_size}
        /\ \A i, j \in 1 .. Len(data) : i < j => data[i].id < data[j].id
        /\ calls = 0 => v = data

C5_Witness ==
    /\ Safe /\ calls = 0
    /\ Len(data) = 2 /\ Len(src) = 3
    /\ bytes_size(src[2]) > chunk_byte_size
    /\ \E e \in Elems(data) : bytes_size(e) = chunk_byte_size

\* ---- C6 -----------------------------------------------------------------
\* C6 (filtering adapter never faults): every next() call on the iterator of
\* byte_chunks_safe_mut returns a chunk or None, never a fault, and at None
\* the chunks concatenated are the filtered container.
C6_SafeNeverFaults ==
    Safe =>
        /\ ret \in {"start", "Some", "None"}
        /\ ret = "None" => Concat(emitted) = data

\* ---- C7 -----------------------------------------------------------------
\* C7 (oversized element aborts): when the sequence given to byte_chunks has
\* an element larger than the budget, no call returns None, no returned chunk
\* holds an oversized element, the first call faults when the first element
\* is oversized, and, every chunk taking at least one element, the
\* element-too-large fault has been raised once as many calls were made as
\* the sequence has elements.
C7_OversizedAborts ==
    (Plain /\ Oversized(src, chunk_byte_size) # {}) =>
        /\ ret # "None"
        /\ \A i \in 1 .. Len(emitted) : Oversized(emitted[i], chunk_byte_size) = {}
        /\ (calls >= 1 /\ bytes_size(src[1]) > chunk_byte_size) => ret = "too_large"
        /\ calls >= Len(src) => ret = "too_large"

\* ---- C8 -----------------------------------------------------------------
\* C8 (emptiness): the first next() call on an iterator built over an empty
\* sequence returns None and no fault, whatever the budget.
C8_EmptyIsNone ==
    (adapter # "none" /\ calls >= 1 /\ data = <<>>)
        => (ret = "None" /\ emitted = <<>>)

C8_Witness ==
    /\ Plain /\ calls = 1 /\ data = <<>> /\ chunk_byte_size = 0 /\ ret = "None"

\* ---- C9 -----------------------------------------------------------------
\* C9 (exhausted is terminal): when next() has returned None the remaining
\* view is empty, and every next() call made on an empty remaining view
\* (after None, or after a chunk that reached the end) returns None and
\* leaves the view empty.
C9_ExhaustedTerminal ==
    [][ /\ ret = "None" => v = <<>>
        /\ ret' = "None" => v' = <<>>
        /\ (calls' = calls + 1 /\ v = <<>>) => (ret' = "None" /\ v' = <<>>)
      ]_vars

C9_Witness ==
    /\ ret = "None" /\ Len(emitted) >= 1 /\ calls >= Len(emitted) + 2

\* ---- C10 ----------------------------------------------------------------
\* C10 (filtering idempotence): byte_chunks_safe_mut applied again with the
\* same budget to the container it has filtered leaves the container
\* unchanged and returns the same chunks as the first application.
C10_Idempotent ==
    (Safe /\ prev.adapter = "byte_chunks_safe_mut"
          /\ prev.budget = chunk_byte_size) =>
        /\ data = prev.data
        /\ IsPrefix(emitted, prev.emitted) \/ IsPrefix(prev.emitted, emitted)
        /\ (ret = "None" /\ prev.ret = "None") => emitted = prev.emitted

C10_Witness ==
    /\ Safe /\ prev.adapter = "byte_chunks_safe_mut"
    /\ prev.budget = chunk_byte_size
    /\ Len(prev.data) < Len(prev.src) /\ Len(prev.data) >= 2
    /\ ret = "None" /\ prev.ret = "None" /\ Len(emitted) >= 2

\* ---- C11 ----------------------------------------------------------------
\* C11 (non-mutation): the container given to byte_chunks keeps its elements
\* and their order through construction and every next() call, and a next()
\* call leaves the container and the budget as they were: it changes only
\* the remaining view (and what it returns).
C11_NonMutation ==
    [][ /\ Plain' => data' = src'
        /\ (Plain /\ calls' = calls + 1) =>
               /\ data' = data
               /\ chunk_byte_size' = chunk_byte_size
               /\ src' = src
      ]_vars

C11_Witness ==
    /\ Plain /\ data = src /\ Len(data) = 3 /\ Len(emitted) >= 1
    /\ Oversized(data, chunk_byte_size) # {}
    /\ ret = "too_large"

\* ---- C14 ----------------------------------------------------------------
\* C14 (state on fault): a next() call that raises the element-too-large
\* fault returns no chunk and leaves the remaining view and the budget as
\* they were, so the chunks returned before it followed by the remaining
\* view still are the sequence the iterator was built over.
C14_FaultKeepsState ==
    [][ (calls' = calls + 1 /\ ret' = "too_large") =>
            /\ v' = v
            /\ emitted' = emitted
            /\ chunk_byte_size' = chunk_byte_size
            /\ Concat(emitted') \o v' = data'
      ]_vars

C14_Witness ==
    /\ ret = "too_large" /\ Len(emitted) >= 1 /\ Len(v) >= 2
    /\ bytes_size(v[1]) <= chunk_byte_size
    /\ Concat(emitted) \o v = data

\* ---- C15 ----------------------------------------------------------------
\* C15 (split invariant): in every state of an iteration the chunks returned
\* so far followed by the remaining view are the sequence the iterator was
\* built over, and a chunk just returned is the prefix of the remaining view
\* as it was when the call started, the new view being the rest.
C15_SplitInvariant ==
    adapter # "none" =>
        /\ Concat(emitted) \o v = data
        /\ ret = "Some" =>
               /\ IsPrefix(Last(emitted), v_before)
               /\ v_before = Last(emitted) \o v

C15_Witness ==
    /\ adapter # "none" /\ ret = "Some"
    /\ Len(emitted) >= 2 /\ Len(Last(emitted)) >= 1 /\ v # <<>>

\* ---- C13 ----------------------------------------------------------------
Called == adapter # "none" /\ calls >= 1 /\ v_before # <<>>

\* C13 as claimed: whenever the first element of the remaining view has a
\* size equal to the budget, the next() call returns a chunk of that element
\* alone, whatever follows it.
C13_ExactFitAlone ==
    (Called /\ bytes_size(v_before[1]) = chunk_byte_size)
        => (ret = "Some" /\ Last(emitted) = <<v_before[1]>>)

\* C13 as amended: an element whose size equals the budget and that is first
\* in the remaining view is accepted, so a chunk returned by that call starts
\* with it and the call never returns None.  The chunk is that element alone
\* when nothing follows it or when the element after it has a nonzero size
\* that fits the budget and whose sum with the budget is representable;
\* elements of size zero that follow it are taken into the same chunk.
C13_ExactFitFirst ==
    (Called /\ bytes_size(v_before[1]) = chunk_byte_size) =>
        /\ ret # "None"
        /\ ret = "Some" =>
               (Len(Last(emitted)) >= 1 /\ Last(emitted)[1] = v_before[1])
        /\ (\/ Len(v_before) = 1
            \/ /\ Len(v_before) >= 2
               /\ bytes_size(v_before[2]) > 0
               /\ bytes_size(v_before[2]) <= chunk_byte_size
               /\ chunk_byte_size + bytes_size(v_before[2]) <= usize_max)
               => (ret = "Some" /\ Last(emitted) = <<v_before[1]>>)
        /\ (ret = "Some" /\ Len(v_before) >= 2 /\ bytes_size(v_before[2]) = 0)
               => (Len(Last(emitted)) >= 2 /\ Last(emitted)[2] = v_before[2])
        /\ (Len(v_before) >= 2 /\ bytes_size(v_before[2]) > chunk_byte_size)
               => ret = "too_large"

C13_Witness ==
    /\ Called /\ bytes_size(v_before[1]) = chunk_byte_size
    /\ chunk_byte_size > 0
    /\ ret = "Some" /\ Len(Last(emitted)) = 2
    /\ bytes_size(v_before[2]) = 0
    /\ v # <<>>

\* ---- C16 ----------------------------------------------------------------
\* C16 as claimed: with a budget of zero a next() call on a non-empty
\* remaining view always raises the element-too-large fault and never
\* returns a chunk, whatever the element sizes.
C16_ZeroBudgetAlwaysFaults ==
    (Called /\ chunk_byte_size = 0) => ret = "too_large"

\* C16 as amended: with a budget of zero a next() call on a non-empty
\* remaining view raises the element-too-large fault exactly when the view
\* holds an element of nonzero size, and then leaves the view as it was;
\* when every remaining element has size zero the call returns them all as
\* one chunk.
C16_ZeroBudget ==
    (Called /\ chunk_byte_size = 0) =>
        IF \A i \in 1 .. Len(v_before) : bytes_size(v_before[i]) = 0
        THEN ret = "Some" /\ Last(emitted) = v_before /\ v = <<>>
        ELSE ret = "too_large" /\ v = v_before

C16_Witness ==
    /\ Called /\ chunk_byte_size = 0
    /\ ret = "Some" /\ Len(Last(emitted)) >= 2

\* ---- C17 ----------------------------------------------------------------
\* C17 (progress and termination): every chunk returned holds at least one
\* element, a chunk-producing call shortens the remaining view, there are at
\* most as many chunks as elements, and over a sequence of n elements none of
\* which exceeds the budget the call after at most n chunk-producing calls
\* returns None.
C17_ProgressTermination ==
    adapter # "none" =>
        /\ \A i \in 1 .. Len(emitted) : Len(emitted[i]) >= 1
        /\ Len(emitted) <= Len(data)
        /\ ret = "Some" => Len(v) < Len(v_before)
        /\ (Oversized(data, chunk_byte_size) = {} /\ calls >= Len(data) + 1)
               => ret = "None"

\* ---- C18 ----------------------------------------------------------------
\* C18 (no wrap-around in the scan): throughout a scan the running total is
\* at most the budget and the sum `running total + candidate size` compared
\* with the budget is at most usize::MAX, and every chunk returned sums to at
\* most the budget.
C18_NoWrapAround ==
    /\ Called =>
           \A p \in scan_sums(v_before, chunk_byte_size, overflow_checks, 0, 0) :
               p.byte_count <= chunk_byte_size /\ p.sum <= usize_max
    /\ ret = "Some" => Sum(Last(emitted)) <= chunk_byte_size

\* ---- C12 ----------------------------------------------------------------
\* the length of a character's UTF-8 encoding, by the range of its code point
Utf8Width(c) ==
    IF c < 128 THEN 1 ELSE IF c < 2048 THEN 2 ELSE IF c < 65536 THEN 3 ELSE 4

RECURSIVE Utf8Len(_)
Utf8Len(text) ==
    IF text = <<>> THEN 0 ELSE Utf8Width(Head(text)) + Utf8Len(Tail(text))

TextsOf(s) == [i \in 1 .. Len(s) |-> s[i].text]

ChunkLens == [i \in 1 .. Len(emitted) |-> Len(emitted[i])]

\* C12 (size capability): the size of a text element is the number of bytes
\* of its UTF-8 encoding, the same for a String and a &str of equal content;
\* the chunks are cut by these sizes, so the five elements of two 3-byte
\* characters each under budget 12 come out as chunks of 2, 2 and 1 elements
\* and then None.
C12_SizeIsUtf8Len ==
    /\ \A i \in 1 .. Len(data) :
           /\ bytes_size(data[i]) = Utf8Len(data[i].text)
           /\ bytes_size([data[i] EXCEPT !.kind = "String"])
                  = bytes_size([data[i] EXCEPT !.kind = "str"])
    /\ \A i \in 1 .. Len(emitted) :
           Utf8Len(Concat(TextsOf(emitted[i]))) <= chunk_byte_size
    /\ (TextsOf(data) = special_chars /\ chunk_byte_size = 12 /\ calls >= 4)
           => (ret = "None" /\ ChunkLens = <<2, 2, 1>>)

C12_Witness ==
    /\ TextsOf(data) = special_chars /\ chunk_byte_size = 12
    /\ Plain /\ data[1].kind = "String"
    /\ bytes_size(data[1]) = 6 /\ Len(data[1].text) = 2
    /\ ret = "None" /\ ChunkLens = <<2, 2, 1>>

====
